---- MODULE Spec2Model ----
(***************************************************************************)
(* Model of soynlp/noun/lrextractor.py: the LRNonuExtractor orchestrator   *)
(* and the module-level functions it calls.                                *)
(*                                                                         *)
(* A Python str is a sequence of one-character strings, so that set(str),  *)
(* str.strip() and str.split() are computed as Python computes them.       *)
(* None is a record of kind "None"; every tagged value keeps all fields so *)
(* that values of different kinds can be compared.                         *)
(***************************************************************************)
EXTENDS Integers, Sequences, FiniteSets, TLC

VARIABLES self, call

vars == <<self, call>>

(***************************************************************************)
(* Bounds of the model and defaults of the program                         *)
(***************************************************************************)
MaxLength == 1
MaxMinEojeolFrequency == 2

DefaultMaxLLength == 10
DefaultMaxRLength == 9
DefaultMinNounScoreTenths == 3
DefaultMinNounFrequency == 1
DefaultMinEojeolIsNounFrequency == 30

(***************************************************************************)
(* Strings                                                                 *)
(***************************************************************************)
Range(f) == {f[i] : i \in DOMAIN f}

IsSpace(c) == c \in {" ", "\n"}

RECURSIVE lstrip(_)
lstrip(s) ==
    IF Len(s) = 0 THEN s
    ELSE IF IsSpace(Head(s)) THEN lstrip(Tail(s)) ELSE s

RECURSIVE rstrip(_)
rstrip(s) ==
    IF Len(s) = 0 THEN s
    ELSE IF IsSpace(s[Len(s)]) THEN rstrip(SubSeq(s, 1, Len(s) - 1)) ELSE s

strip(s) == rstrip(lstrip(s))

RECURSIVE split_from(_, _, _)
split_from(s, cur, acc) ==
    IF Len(s) = 0
    THEN IF Len(cur) = 0 THEN acc ELSE Append(acc, cur)
    ELSE IF IsSpace(Head(s))
         THEN split_from(Tail(s), <<>>, IF Len(cur) = 0 THEN acc ELSE Append(acc, cur))
         ELSE split_from(Tail(s), Append(cur, Head(s)), acc)

split(s) == split_from(s, <<>>, <<>>)

\* set(s) for a str s: the set of its one-character strings
chars_of(s) == {<<s[i]>> : i \in DOMAIN s}

(***************************************************************************)
(* The file system the program runs on                                     *)
(***************************************************************************)
DefaultPosPath == <<"P">>
DefaultNegPath == <<"N">>
FeatureFile == <<"f">>
CorpusFile == <<"c">>
NoSuchPath == <<"a", "b">>

path_exists(path) == path \in {DefaultPosPath, DefaultNegPath, FeatureFile, CorpusFile}

read_lines(path) ==
    CASE path = DefaultPosPath -> << <<"a", "\n">>, <<"a", "b", " ", "\n">>, <<"\n">> >>
      [] path = DefaultNegPath -> << <<"b", "\n">>, <<" ", "a", "b", "\n">> >>
      [] path = FeatureFile    -> << <<"a", "\n">>, <<" ", "\n">>, <<" ", "a", "\n">>, <<"c">> >>
      [] path = CorpusFile     -> << <<"a", "b", " ", "a", "\n">>, <<"a", "b", "\n">>, <<"\n">> >>
      [] OTHER                 -> <<>>

(***************************************************************************)
(* prepare_r_features                                                      *)
(***************************************************************************)
NoneFeatures == [kind |-> "None", set |-> {}, list |-> <<>>, path |-> <<>>]
SetFeatures(S) == [kind |-> "set", set |-> S, list |-> <<>>, path |-> <<>>]
ListFeatures(l) == [kind |-> "list", set |-> {}, list |-> l, path |-> <<>>]
StrFeatures(p) == [kind |-> "str", set |-> {}, list |-> <<>>, path |-> p]

load_features(path) ==
    LET lines == read_lines(path)
        features == [i \in DOMAIN lines |-> strip(lines[i])]
    IN {features[i] : i \in {j \in DOMAIN features : Len(features[j]) > 0}}

\* lines 88-91 / 93-96: None loads the default file, an existing path is
\* loaded, anything else is kept as it is
resolve_features(features, default_path) ==
    IF features.kind = "None" THEN SetFeatures(load_features(default_path))
    ELSE IF features.kind = "str" /\ path_exists(features.path)
         THEN SetFeatures(load_features(features.path))
         ELSE features

\* lines 98-101: set(x) unless x is a set already
to_set(features) ==
    CASE features.kind = "set"  -> features.set
      [] features.kind = "list" -> Range(features.list)
      [] features.kind = "str"  -> chars_of(features.path)
      [] OTHER                  -> {}

FeatureResult(ok, error, pos, neg, common) ==
    [ok |-> ok, error |-> error, pos |-> pos, neg |-> neg, common |-> common]

prepare_r_features_keep_neg(pos_features, neg_features) ==
    LET pos == to_set(resolve_features(pos_features, DefaultPosPath))
        neg == to_set(resolve_features(neg_features, DefaultNegPath))
        common_features == pos \cap neg
    IN FeatureResult(TRUE, "", {f \in pos : f \notin common_features}, neg, common_features)

prepare_r_features_keep_both(pos_features, neg_features) ==
    LET pos == to_set(resolve_features(pos_features, DefaultPosPath))
        neg == to_set(resolve_features(neg_features, DefaultNegPath))
        common_features == pos \cap neg
    IN FeatureResult(TRUE, "", pos, neg, common_features)

prepare_r_features(pos_features, neg_features) ==
    LET pos == to_set(resolve_features(pos_features, DefaultPosPath))
        neg == to_set(resolve_features(neg_features, DefaultNegPath))
        common_features == pos \cap neg
    IN FeatureResult(TRUE, "",
                     {f \in pos : f \notin common_features},
                     {f \in neg : f \notin common_features},
                     common_features)

prepare_postprocessing(postprocessing) == postprocessing

(***************************************************************************)
(* soynlp.utils: EojeolCounter, LRGraph, DoublespaceLineCorpus             *)
(***************************************************************************)
NoGraph == [kind |-> "None", id |-> 0, edges |-> {}]
LRGraph(id, edges) == [kind |-> "LRGraph", id |-> id, edges |-> edges]

TrainData(kind, id, edges, counts, sents, path) ==
    [kind |-> kind, id |-> id, edges |-> edges, counts |-> counts,
     sents |-> sents, path |-> path]

NoneData == TrainData("None", 0, {}, {}, <<>>, <<>>)
GraphData(g) == TrainData("LRGraph", g.id, g.edges, {}, <<>>, <<>>)
CounterData(counts) == TrainData("EojeolCounter", 0, {}, counts, <<>>, <<>>)
SentsData(sents) == TrainData("sents", 0, {}, {}, sents, <<>>)
StrData(path) == TrainData("str", 0, {}, {}, <<>>, path)

NonBlank(line) == Len(line) > 0

\* the sentences of a corpus file, one per non-blank line
DoublespaceLineCorpus(path) ==
    LET lines == read_lines(path)
    IN SentsData(SelectSeq([i \in DOMAIN lines |-> strip(lines[i])], NonBlank))

iter_sents(sents) == sents.sents

RECURSIVE tokens_of(_)
tokens_of(sents) ==
    IF Len(sents) = 0 THEN <<>> ELSE split(Head(sents)) \o tokens_of(Tail(sents))

truncate(eojeol, max_length) ==
    SubSeq(eojeol, 1, IF Len(eojeol) < max_length THEN Len(eojeol) ELSE max_length)

\* counts of the eojeols truncated to max_length, those below min_count dropped
EojeolCounter(sents, min_count, max_length) ==
    IF sents.kind = "None"
    THEN [ok |-> FALSE, error |-> "InvalidInput", counts |-> {}]
    ELSE LET raw == tokens_of(iter_sents(sents))
             tokens == [i \in DOMAIN raw |-> truncate(raw[i], max_length)]
             count(e) == Cardinality({i \in DOMAIN tokens : tokens[i] = e})
         IN [ok |-> TRUE, error |-> "",
             counts |-> {<<e, count(e)>> : e \in {t \in Range(tokens) : count(t) >= min_count}}]

\* every split of every eojeol within the length window adds its count
to_lrgraph(counts, max_l_length, max_r_length) ==
    LRGraph(0,
        UNION {{[l |-> SubSeq(c[1], 1, i), r |-> SubSeq(c[1], i + 1, Len(c[1])), w |-> c[2]] :
                    i \in {j \in 0..Len(c[1]) : j <= max_l_length /\ Len(c[1]) - j <= max_r_length}} :
               c \in counts})

(***************************************************************************)
(* train_lrgraph                                                           *)
(***************************************************************************)
TrainResult(ok, error, graph, trace) ==
    [ok |-> ok, error |-> error, graph |-> graph, trace |-> trace]

build_lrgraph(train_data, min_eojeol_frequency, max_l_length, max_r_length) ==
    LET corpus == train_data.kind = "str" /\ path_exists(train_data.path)
        sents == IF corpus THEN DoublespaceLineCorpus(train_data.path) ELSE train_data
        eojeol_counter == EojeolCounter(sents, min_eojeol_frequency, max_l_length + max_r_length)
        steps == (IF corpus THEN {"DoublespaceLineCorpus"} ELSE {}) \cup {"EojeolCounter"}
    IN IF ~eojeol_counter.ok
       THEN TrainResult(FALSE, eojeol_counter.error, NoGraph, steps)
       ELSE TrainResult(TRUE, "",
                        to_lrgraph(eojeol_counter.counts, max_l_length, max_r_length),
                        steps \cup {"to_lrgraph"})

train_lrgraph_prune(train_data, min_eojeol_frequency, max_l_length, max_r_length) ==
    IF train_data.kind = "LRGraph"
    THEN TrainResult(TRUE, "",
                     LRGraph(train_data.id,
                             {e \in train_data.edges :
                                  Len(e.l) <= max_l_length /\ Len(e.r) <= max_r_length}),
                     {})
    ELSE IF train_data.kind = "EojeolCounter"
         THEN TrainResult(TRUE, "", to_lrgraph(train_data.counts, max_l_length, max_r_length),
                          {"to_lrgraph"})
         ELSE build_lrgraph(train_data, min_eojeol_frequency, max_l_length, max_r_length)

\* verbose only selects whether progress messages are printed
train_lrgraph(train_data, min_eojeol_frequency, max_l_length, max_r_length) ==
    IF train_data.kind = "LRGraph"
    THEN TrainResult(TRUE, "", LRGraph(train_data.id, train_data.edges), {})
    ELSE IF train_data.kind = "EojeolCounter"
         THEN TrainResult(TRUE, "", to_lrgraph(train_data.counts, max_l_length, max_r_length),
                          {"to_lrgraph"})
         ELSE build_lrgraph(train_data, min_eojeol_frequency, max_l_length, max_r_length)

(***************************************************************************)
(* extract_nouns, postprocessing                                           *)
(***************************************************************************)
NounsResult(ok, error, candidates, nouns) ==
    [ok |-> ok, error |-> error, candidates |-> candidates, nouns |-> nouns]

extract_nouns_empty(lrgraph, min_noun_score, min_noun_frequency, min_eojeol_is_noun_frequency) ==
    NounsResult(TRUE, "", {}, {})

extract_nouns(lrgraph, min_noun_score, min_noun_frequency, min_eojeol_is_noun_frequency) ==
    NounsResult(FALSE, "NotImplementedError", {}, {})

postprocessing(nouns, lr_noun_extractor) ==
    NounsResult(FALSE, "NotImplementedError", {}, {})

\* line 62: every (frequency, score) pair becomes a NounScore
NounScore(nouns) == {[noun |-> n[1], frequency |-> n[2][1], score |-> n[2][2]] : n \in nouns}

(***************************************************************************)
(* LRNonuExtractor                                                         *)
(***************************************************************************)
LRNonuExtractor(max_l_length, max_r_length, pos_features, neg_features, post) ==
    LET features == prepare_r_features(pos_features, neg_features)
    IN [max_l_length |-> max_l_length,
        max_r_length |-> max_r_length,
        pos |-> features.pos,
        neg |-> features.neg,
        common |-> features.common,
        postprocessing |-> prepare_postprocessing(post),
        lrgraph |-> NoGraph]

is_trained(s) == s.lrgraph.kind # "None"

missing_train_data_inverted(s, train_data) == is_trained(s) /\ train_data.kind = "None"

missing_train_data(s, train_data) == (~is_trained(s)) /\ train_data.kind = "None"

ExtractArgs(train_data, min_noun_score, min_noun_frequency, min_eojeol_frequency, min_eojeol_is_noun_frequency, extract_compounds) ==
    [train_data |-> train_data,
     min_noun_score |-> min_noun_score,
     min_noun_frequency |-> min_noun_frequency,
     min_eojeol_frequency |-> min_eojeol_frequency,
     min_eojeol_is_noun_frequency |-> min_eojeol_is_noun_frequency,
     extract_compounds |-> extract_compounds]

ExtractResult(s, outcome, error, stage, trace, nouns) ==
    [self |-> s, outcome |-> outcome, error |-> error, stage |-> stage,
     trace |-> trace, nouns |-> nouns]

\* lines 54-63, with the graph g the extractor s holds after line 52.
\* Inside extract the name extract_compounds is the boolean parameter, so
\* line 59 calls a bool.
score_and_finish(s, a, trace) ==
    LET scored == extract_nouns(s.lrgraph, a.min_noun_score, a.min_noun_frequency,
                                a.min_eojeol_is_noun_frequency)
        t1 == trace \cup {"extract_nouns"}
    IN IF ~scored.ok
       THEN ExtractResult(s, "raised", scored.error, "extract_nouns", t1, {})
       ELSE IF a.extract_compounds
            THEN ExtractResult(s, "raised", "TypeError", "extract_compounds",
                               t1 \cup {"extract_compounds"}, {})
            ELSE LET post == postprocessing(scored.nouns, s)
                     t2 == t1 \cup {"postprocessing"}
                 IN IF ~post.ok
                    THEN ExtractResult(s, "raised", post.error, "postprocessing", t2, {})
                    ELSE ExtractResult(s, "returned", "", "", t2, NounScore(post.nouns))

obtain_lrgraph_unguarded(s, a) ==
    IF s.lrgraph.kind = "None" \/ a.train_data.kind # "None"
    THEN train_lrgraph(a.train_data, a.min_eojeol_frequency, s.max_l_length, s.max_r_length)
    ELSE TrainResult(TRUE, "", s.lrgraph, {})

\* lines 49-52
obtain_lrgraph(s, a) ==
    IF s.lrgraph.kind = "None"
    THEN train_lrgraph(a.train_data, a.min_eojeol_frequency, s.max_l_length, s.max_r_length)
    ELSE TrainResult(TRUE, "", s.lrgraph, {})

extract_local_graph(s, a) ==
    IF missing_train_data(s, a.train_data)
    THEN ExtractResult(s, "raised", "ValueError", "extract", {}, {})
    ELSE LET t == obtain_lrgraph(s, a)
             trained == IF s.lrgraph.kind = "None" THEN {"train_lrgraph"} ELSE {}
         IN IF ~t.ok
            THEN ExtractResult(s, "raised", t.error, "train_lrgraph", t.trace \cup trained, {})
            ELSE [score_and_finish([s EXCEPT !.lrgraph = t.graph], a, t.trace \cup trained)
                     EXCEPT !.self = s]

extract_retrain(s, a) ==
    IF missing_train_data(s, a.train_data)
    THEN ExtractResult(s, "raised", "ValueError", "extract", {}, {})
    ELSE LET retrain == a.train_data.kind # "None"
             t == IF retrain
                  THEN train_lrgraph(a.train_data, a.min_eojeol_frequency,
                                     s.max_l_length, s.max_r_length)
                  ELSE TrainResult(TRUE, "", s.lrgraph, {})
             trained == IF retrain THEN {"train_lrgraph"} ELSE {}
         IN IF ~t.ok
            THEN ExtractResult(s, "raised", t.error, "train_lrgraph", t.trace \cup trained, {})
            ELSE score_and_finish([s EXCEPT !.lrgraph = t.graph], a, t.trace \cup trained)

extract(s, a) ==
    IF missing_train_data(s, a.train_data)
    THEN ExtractResult(s, "raised", "ValueError", "extract", {}, {})
    ELSE LET t == obtain_lrgraph(s, a)
             trained == IF s.lrgraph.kind = "None" THEN {"train_lrgraph"} ELSE {}
         IN IF ~t.ok
            THEN ExtractResult(s, "raised", t.error, "train_lrgraph", t.trace \cup trained, {})
            ELSE score_and_finish([s EXCEPT !.lrgraph = t.graph], a, t.trace \cup trained)

(***************************************************************************)
(* Inputs                                                                  *)
(***************************************************************************)
A == <<"a">>
B == <<"b">>
C == <<"c">>
AB == <<"a", "b">>

Lengths(default) == (1..MaxLength) \cup {default}

CtorPosFeatures == {NoneFeatures, StrFeatures(NoSuchPath)}
CtorNegFeatures == {NoneFeatures, SetFeatures({B, C})}

FeatureInputs ==
    {NoneFeatures, SetFeatures({A, B}), SetFeatures({B, C}),
     ListFeatures(<<A, A, C>>), StrFeatures(FeatureFile), StrFeatures(NoSuchPath)}

\* None, or the name of an injected function
PostFunctions == {"None", "drop_single_characters"}

\* what an injected function computes; None stands for the identity
apply_function(f, nouns) ==
    IF f = "drop_single_characters" THEN {n \in nouns : Len(n[1]) > 1} ELSE nouns

SuppliedGraphs ==
    {LRGraph(1, {[l |-> AB, r |-> <<>>, w |-> 2], [l |-> A, r |-> B, w |-> 2],
                 [l |-> <<>>, r |-> AB, w |-> 2]}),
     LRGraph(2, {})}

TrainInputs ==
    {NoneData, StrData(CorpusFile),
     SentsData(<< <<"a", "b", " ", "b">>, <<"b">> >>),
     CounterData({<<AB, 2>>, <<A, 1>>})}
    \cup {GraphData(g) : g \in SuppliedGraphs}

NounInputs == {{}, {<<A, <<2, 5>>>>, <<AB, <<1, 3>>>>}}

(***************************************************************************)
(* The last call and what it did                                           *)
(***************************************************************************)
NoArgs ==
    ExtractArgs(NoneData, DefaultMinNounScoreTenths, DefaultMinNounFrequency, 1,
                DefaultMinEojeolIsNounFrequency, TRUE)

NoCall ==
    [op |-> "none", args |-> NoArgs,
     pos_in |-> NoneFeatures, neg_in |-> NoneFeatures, fed_back |-> FALSE,
     nouns_in |-> {},
     self_before |-> [kind |-> "None", lrgraph |-> NoGraph],
     outcome |-> "none", error |-> "", stage |-> "", trace |-> {},
     nouns |-> {}, pos |-> {}, neg |-> {}, common |-> {},
     repeat |-> FALSE, after_failed_training |-> FALSE,
     prev |-> [outcome |-> "none", error |-> "", stage |-> "", nouns |-> {}]]

Before(s) == [kind |-> "LRNonuExtractor", lrgraph |-> s.lrgraph]

(***************************************************************************)
(* Initial state: a newly constructed extractor                            *)
(***************************************************************************)
Init ==
    /\ \E max_l_length \in Lengths(DefaultMaxLLength), max_r_length \in Lengths(DefaultMaxRLength),
          pos_features \in CtorPosFeatures, neg_features \in CtorNegFeatures,
          post \in PostFunctions :
          self = LRNonuExtractor(max_l_length, max_r_length, pos_features, neg_features, post)
    /\ call = NoCall

(***************************************************************************)
(* Operations                                                              *)
(***************************************************************************)
Extract ==
    \E train_data \in TrainInputs, min_eojeol_frequency \in 1..MaxMinEojeolFrequency,
       extract_compounds \in BOOLEAN :
        LET a == ExtractArgs(train_data, DefaultMinNounScoreTenths, DefaultMinNounFrequency,
                             min_eojeol_frequency, DefaultMinEojeolIsNounFrequency,
                             extract_compounds)
            r == extract(self, a)
        IN /\ self' = r.self
           /\ call' = [NoCall EXCEPT
                          !.op = "extract", !.args = a, !.self_before = Before(self),
                          !.outcome = r.outcome, !.error = r.error, !.stage = r.stage,
                          !.trace = r.trace, !.nouns = r.nouns,
                          !.repeat = (call.op = "extract" /\ call.args = a
                                      /\ call.self_before.lrgraph.kind # "None"),
                          !.after_failed_training =
                              (call.op = "extract" /\ call.self_before.lrgraph.kind = "None"
                               /\ call.args.train_data.kind # "None"
                               /\ call.outcome = "raised" /\ call.stage = "extract_nouns"),
                          !.prev = IF call.op = "extract" /\ call.args = a
                                   THEN [outcome |-> call.outcome, error |-> call.error,
                                         stage |-> call.stage, nouns |-> call.nouns]
                                   ELSE NoCall.prev]

PrepareCall(pos_features, neg_features, fed_back) ==
    LET r == prepare_r_features(pos_features, neg_features)
    IN [NoCall EXCEPT
           !.op = "prepare_r_features", !.pos_in = pos_features, !.neg_in = neg_features,
           !.fed_back = fed_back,
           !.outcome = IF r.ok THEN "returned" ELSE "raised", !.error = r.error,
           !.pos = r.pos, !.neg = r.neg, !.common = r.common]

PrepareRFeatures ==
    /\ \E pos_features \in FeatureInputs, neg_features \in FeatureInputs :
           call' = PrepareCall(pos_features, neg_features, FALSE)
    /\ UNCHANGED self

\* prepare_r_features applied to the pos and neg sets it returned last
PrepareRFeaturesAgain ==
    /\ call.op = "prepare_r_features"
    /\ call.outcome = "returned"
    /\ ~call.fed_back
    /\ call' = PrepareCall(SetFeatures(call.pos), SetFeatures(call.neg), TRUE)
    /\ UNCHANGED self

\* the postprocessing step of extract, applied to a noun mapping
Postprocessing ==
    /\ \E nouns \in NounInputs :
          LET r == postprocessing(nouns, self)
          IN call' = [NoCall EXCEPT
                         !.op = "postprocessing", !.nouns_in = nouns,
                         !.self_before = Before(self),
                         !.outcome = IF r.ok THEN "returned" ELSE "raised",
                         !.error = r.error,
                         !.stage = IF r.ok THEN "" ELSE "postprocessing",
                         !.trace = {"postprocessing"},
                         !.nouns = r.nouns]
    /\ UNCHANGED self

Next == Extract \/ PrepareRFeatures \/ PrepareRFeaturesAgain \/ Postprocessing

Spec == Init /\ [][Next]_vars

TypeOK ==
    /\ self.lrgraph.kind \in {"None", "LRGraph"}
    /\ call.op \in {"none", "extract", "prepare_r_features", "postprocessing"}
    /\ call.outcome \in {"none", "returned", "raised"}

(***************************************************************************)
(* Properties                                                              *)
(***************************************************************************)
IsExtract == call.op = "extract"
WasTrained == call.self_before.lrgraph.kind # "None"
IsPrepare == call.op = "prepare_r_features"
MissingPath(features) == features.kind = "str" /\ ~path_exists(features.path)

\* C1: extract on an untrained extractor with train_data = None raises the
\* missing-training-data error (ValueError) before any graph building,
\* scoring, compound or postprocessing step, and the extractor stays untrained.
C1_MissingTrainingData ==
    (IsExtract /\ ~WasTrained /\ call.args.train_data.kind = "None")
        => /\ call.outcome = "raised"
           /\ call.error = "ValueError"
           /\ call.stage = "extract"
           /\ call.trace = {}
           /\ ~is_trained(self)

C1_Witness ==
    /\ IsExtract /\ ~WasTrained /\ call.args.train_data.kind = "None"
    /\ call.error = "ValueError"

\* C2: for input feature sets, prepare_r_features returns pos, neg and common
\* pairwise disjoint, with union pos_input \cup neg_input and
\* common = pos_input \cap neg_input.
C2_Partition ==
    (IsPrepare /\ call.pos_in.kind = "set" /\ call.neg_in.kind = "set")
        => /\ call.outcome = "returned"
           /\ call.pos \cap call.neg = {}
           /\ call.pos \cap call.common = {}
           /\ call.neg \cap call.common = {}
           /\ call.pos \cup call.neg \cup call.common = call.pos_in.set \cup call.neg_in.set
           /\ call.common = call.pos_in.set \cap call.neg_in.set

C2_Witness ==
    /\ IsPrepare /\ call.pos_in = SetFeatures({A, B}) /\ call.neg_in = SetFeatures({B, C})
    /\ call.common = {B}

\* C3: a pos_features or neg_features path string that does not exist makes
\* feature preparation fail with FeatureFileNotFound; no feature sets are
\* returned for it.
C3_FeatureFileNotFound ==
    (IsPrepare /\ (MissingPath(call.pos_in) \/ MissingPath(call.neg_in)))
        => /\ call.outcome = "raised"
           /\ call.error = "FeatureFileNotFound"

C5_InjectedPostprocessing ==
    (call.op = "postprocessing")
        => /\ call.outcome = "returned"
           /\ call.nouns = apply_function(self.postprocessing, call.nouns_in)

\* C6: prepare_r_features applied to the pos and neg sets of one of its
\* results returns the same pos and neg sets and an empty common set.
C6_Idempotent ==
    (IsPrepare /\ call.fed_back)
        => /\ call.outcome = "returned"
           /\ call.pos = call.pos_in.set
           /\ call.neg = call.neg_in.set
           /\ call.common = {}

C6_Witness ==
    /\ IsPrepare /\ call.fed_back
    /\ call.pos_in = SetFeatures({A}) /\ call.neg_in = SetFeatures({C})
    /\ call.pos = {A} /\ call.neg = {C}

\* C7: no extract call returns a noun mapping, and every extract call that
\* passes the training-data check and holds an LR graph ends with
\* NotImplementedError raised by the noun-scoring step.
C7_NotImplemented ==
    IsExtract
        => /\ call.outcome # "returned"
           /\ (~(call.stage = "extract" /\ call.error = "ValueError") /\ is_trained(self))
                => /\ call.outcome = "raised"
                   /\ call.error = "NotImplementedError"
                   /\ call.stage = "extract_nouns"

C7_Witness ==
    /\ IsExtract /\ "train_lrgraph" \in call.trace
    /\ call.error = "NotImplementedError" /\ call.stage = "extract_nouns"
    /\ ~call.args.extract_compounds

\* C8: the extractor starts untrained, a held LR graph is never replaced or
\* dropped, and extract builds a graph only when the extractor is untrained.
C8_TrainedOnce ==
    /\ ~is_trained(self)
    /\ [][is_trained(self) => self'.lrgraph = self.lrgraph]_vars
    /\ []((IsExtract /\ WasTrained) => "train_lrgraph" \notin call.trace)

C8_Witness ==
    /\ IsExtract /\ WasTrained
    /\ call.args.train_data.kind = "LRGraph"
    /\ call.args.train_data.id # self.lrgraph.id
    /\ self.lrgraph = call.self_before.lrgraph

\* C9: when train_data is an LRGraph the extractor holds that very graph,
\* no EojeolCounter is constructed, and min_eojeol_frequency, max_l_length
\* and max_r_length do not change it.
C9_SuppliedGraph ==
    (IsExtract /\ ~WasTrained /\ call.args.train_data.kind = "LRGraph")
        => /\ self.lrgraph = LRGraph(call.args.train_data.id, call.args.train_data.edges)
           /\ call.trace \cap {"DoublespaceLineCorpus", "EojeolCounter", "to_lrgraph"} = {}

C9_Witness ==
    /\ IsExtract /\ ~WasTrained /\ call.args.train_data.kind = "LRGraph"
    /\ self.max_l_length = 1 /\ self.max_r_length = 1
    /\ \E e \in self.lrgraph.edges : Len(e.l) > 1
    /\ call.args.min_eojeol_frequency > 1

\* C10: an extract call on an untrained extractor with train_data that fails
\* in the scoring step leaves the built graph in the extractor, and an
\* extract(train_data = None) that follows it does not raise the
\* missing-training-data error.
C10_FailedCallTrains ==
    /\ (IsExtract /\ ~WasTrained /\ call.args.train_data.kind # "None"
            /\ call.stage = "extract_nouns")
          => /\ is_trained(self)
             /\ "train_lrgraph" \in call.trace
    /\ (IsExtract /\ call.after_failed_training /\ call.args.train_data.kind = "None")
          => /\ WasTrained
             /\ call.error # "ValueError"

C10_Witness ==
    /\ IsExtract /\ call.after_failed_training /\ call.args.train_data.kind = "None"
    /\ call.error = "NotImplementedError"
    /\ is_trained(self)

====
